---- MODULE Spec2Model ----
(***************************************************************************)
(* A model of src/main.js: the S&P 500 treemap bot.                        *)
(*                                                                         *)
(* One step of the model is one turn of the Node.js event loop: the         *)
(* arrival of an HTTP response or the firing of a timer, together with      *)
(* every continuation (microtask) that the arrival makes runnable, up to    *)
(* the next await that has to wait for the network or a timer.              *)
(*                                                                         *)
(* Symbols are the integers 1..n, in the order of the constituent list.     *)
(* Inside a batch the first symbol (the head) has its quote request and     *)
(* its candle request settled one by one, in either order and with every    *)
(* response of QuoteResponses / CandleResponses; the requests of the other  *)
(* symbols of the batch (the rest) settle together, before, between or      *)
(* after the head's, all fulfilled or all rejected.                         *)
(***************************************************************************)
EXTENDS Integers, Sequences, FiniteSets, TLC

(* ---------------------------------------------------------------- bounds *)

\* Longest constituent list the provider returns when runs do not overlap.
MaxSymbols == 65
\* Runs that can be in flight at the same time.
MaxRuns == 2
\* Seconds of wall-clock time that the timed specification follows.
MaxTime == 2
MaxRecords == 3

RunIds == 1..MaxRuns

(* ------------------------------------------------------------- JS values *)

Num(v) == [t |-> "number", v |-> v]
NaN == [t |-> "NaN"]
Infinity == [t |-> "Infinity"]
NegInfinity == [t |-> "-Infinity"]
Undefined == [t |-> "undefined"]
Null == [t |-> "null"]

\* Truthiness of a JS number or undefined (used by !x and x || y).
Truthy(x) == x.t \in {"Infinity", "-Infinity"} \/ (x.t = "number" /\ x.v # 0)

\* a - b on JS values.
JsSub(a, b) ==
  IF a.t # "number" \/ b.t # "number" THEN NaN ELSE Num(a.v - b.v)

\* (a / b) * 100 on JS values; the closes of the model divide exactly.
JsDivTimes100(a, b) ==
  IF a.t # "number" \/ b.t # "number" THEN NaN
  ELSE IF b.v = 0
       THEN (IF a.v = 0 THEN NaN ELSE IF a.v > 0 THEN Infinity ELSE NegInfinity)
       ELSE Num((a.v * 100) \div b.v)

\* a > b on JS numbers: false as soon as one of them is NaN.
JsGt(a, b) ==
  IF a.t \notin {"number", "Infinity", "-Infinity"} THEN FALSE
  ELSE IF b.t \notin {"number", "Infinity", "-Infinity"} THEN FALSE
  ELSE IF a.t = "Infinity" THEN b.t # "Infinity"
  ELSE IF a.t = "-Infinity" THEN FALSE
  ELSE IF b.t = "Infinity" THEN FALSE
  ELSE IF b.t = "-Infinity" THEN TRUE
  ELSE a.v > b.v

\* a < b
JsLt(a, b) == JsGt(b, a)

\* arr[idx] with a 0-based index: undefined outside the array.
JsIndex(arr, idx) ==
  IF idx >= 0 /\ idx < Len(arr) THEN Num(arr[idx + 1]) ELSE Undefined

(* ------------------------------------------------------------- constants *)

batchSize == 30
\* setTimeout(resolve, 1000): the pause between batches, in seconds.
pauseSeconds == 1

(* ----------------------------------------------------------- environment *)

\* A configuration value: not set, set to the empty string, or set.
NotSet == "<undefined>"
EnvValues == {NotSet, "", "value"}
Falsy(v) == v \in {NotSet, ""}

\* State of an HTTP call.
NoReq == [st |-> "none"]
Pending == [st |-> "pending"]
Rejected == [st |-> "rejected"]
Fulfilled(data) == [st |-> "fulfilled", data |-> data]

NetworkError == "Network Error"

\* Lengths of the constituent list: any up to MaxSymbols when every run ends
\* within the timer interval; with slow latency, when runs overlap, the
\* index has one constituent at most.
FastLengths == 0..MaxSymbols
SlowLengths == {0, 1}
\* When the clock is followed: one symbol, one full batch, one symbol more.
TimedLengths == {1, batchSize, batchSize + 1}

\* Responses of GET /index/constituents: the call fails, the body is empty,
\* the body has no constituents field, or it lists n symbols.
ConstituentResponses(lengths) ==
  {Rejected, Fulfilled([none |-> TRUE]), Fulfilled([other |-> TRUE])}
    \cup {Fulfilled([constituents |-> [j \in 1..n |-> j]]) : n \in lengths}

\* Responses of GET /quote: c is the latest price, dp the percent change.
QuoteResponses ==
  {Rejected, Fulfilled([c |-> 0, dp |-> 0]), Fulfilled([c |-> 5, dp |-> 3])}

\* Responses of GET /stock/candle: s the status, c the closes, oldest first.
CandleResponses ==
  {Rejected, Fulfilled([s |-> "no_data"]), Fulfilled([s |-> "ok"]),
   Fulfilled([s |-> "ok", c |-> <<1>>]), Fulfilled([s |-> "ok", c |-> <<0, 1>>]),
   Fulfilled([s |-> "ok", c |-> <<1, 2>>]), Fulfilled([s |-> "ok", c |-> <<2, 1>>])}

\* The candle responses drawn when runs overlap: a failure and a success.
SlowCandleResponses == {Rejected, Fulfilled([s |-> "ok", c |-> <<1, 2>>])}

\* The two outcomes of the requests of the rest of a batch.
RestOutcomes == {"fulfilled", "rejected"}
RestQuote(o) == IF o = "fulfilled" THEN Fulfilled([c |-> 5, dp |-> 3]) ELSE Rejected
RestCandle(o) ==
  IF o = "fulfilled" THEN Fulfilled([s |-> "ok", c |-> <<1, 2>>]) ELSE Rejected

(* -------------------------------------------------------------- messages *)

MsgConstituents == "Failed to fetch S&P 500 constituents"
MsgNoData == "No stock data available"
MsgToBuffer == "canvas.toBuffer is not a function"
MsgSvgString == "svgString is not defined"

(* ------------------------------------------------------------- variables *)

VARIABLES
  env,      \* process.env: FINNHUB_API_KEY, TELEGRAM_TOKEN, CHAT_ID
  latency,  \* "fast": a run ends within the timer interval; "slow": it may not
  proc,     \* "init", "running", "crashed" (startup threw), "exited"
  timer,    \* TRUE once setInterval(run, ...) has been called
  run,      \* per run in flight or last ended: its frame and what it did
  timed,    \* TRUE when the clock is followed (timers fire when they are due)
  now       \* the clock, in whole seconds since the process started

vars == <<env, latency, proc, timer, run, timed, now>>

(* ------------------------------------------------------- startup, 7-13 *)

EnvKeys == {"FINNHUB_API_KEY", "TELEGRAM_TOKEN", "CHAT_ID"}

\* Mutant: the three tests joined by && instead of ||.
ConfigMissing_all(e) ==
  Falsy(e["FINNHUB_API_KEY"]) /\ Falsy(e["TELEGRAM_TOKEN"]) /\ Falsy(e["CHAT_ID"])

\* if (!FINNHUB_API_KEY || !TELEGRAM_TOKEN || !CHAT_ID)
ConfigMissing(e) ==
  Falsy(e["FINNHUB_API_KEY"]) \/ Falsy(e["TELEGRAM_TOKEN"]) \/ Falsy(e["CHAT_ID"])

(* ------------------------------------------------------- getSP500Symbols *)

Thrown(message) == [t |-> "thrown", message |-> message]
Returned(value) == [t |-> "returned", value |-> value]

\* !response.data || !response.data.constituents (an empty array is truthy)
ConstituentsMissing(data) == "constituents" \notin DOMAIN data

getSP500Symbols(response) ==
  IF response.st = "rejected" THEN Thrown(NetworkError)
  ELSE IF ConstituentsMissing(response.data) THEN Thrown(MsgConstituents)
  ELSE Returned(response.data.constituents)

(* ---------------------------------------------------------- getStockData *)

Awaiting == [t |-> "awaiting"]

\* Promise.all over calls: rejected as soon as one is, fulfilled when all are.
PromiseAll(calls) ==
  IF \E j \in 1..Len(calls) : calls[j].st = "rejected" THEN Rejected
  ELSE IF \A j \in 1..Len(calls) : calls[j].st = "fulfilled"
       THEN Fulfilled([j \in 1..Len(calls) |-> calls[j].data])
       ELSE Pending

\* Mutant: the two tests joined by && instead of ||.
NoDataAvailable_and(quote, candles) == quote.c = 0 /\ candles.s # "ok"

\* quoteRes.data.c === 0 || candlesRes.data.s !== "ok"
NoDataAvailable(quote, candles) == quote.c = 0 \/ candles.s # "ok"

\* quoteRes.data.dp || dailyReturn
Change(quote, dailyReturn) ==
  IF "dp" \in DOMAIN quote /\ Truthy(Num(quote.dp)) THEN Num(quote.dp) ELSE dailyReturn

\* Lines 66-75: the record computed from the two responses.
StockRecord(symbol, quote, candles) ==
  LET currentPrice == JsIndex(candles.c, Len(candles.c) - 1)
      previousPrice == JsIndex(candles.c, Len(candles.c) - 2)
      dailyReturn == JsDivTimes100(JsSub(currentPrice, previousPrice), previousPrice)
  IN [t |-> "record", symbol |-> symbol, dailyReturn |-> dailyReturn,
      price |-> currentPrice, change |-> Change(quote, dailyReturn)]

\* Mutant: the catch of getStockData logs the error and throws it again.
FetchCatch_rethrow(message) == [ret |-> Thrown(message), log |-> "error"]

\* Lines 76-79: the catch of getStockData logs the error and returns null.
FetchCatch(message) == [ret |-> Null, log |-> "error"]

\* What getStockData(symbol) has returned, given the state of its two calls,
\* and what it has logged ("nodata": line 61, "error": line 77).
getStockData(symbol, quoteRes, candlesRes) ==
  LET all == PromiseAll(<<quoteRes, candlesRes>>) IN
  IF all.st = "pending" THEN [ret |-> Awaiting, log |-> "none"]
  ELSE IF all.st = "rejected" THEN FetchCatch(NetworkError)
  ELSE LET quote == all.data[1]
           candles == all.data[2]
       IN IF NoDataAvailable(quote, candles) THEN [ret |-> Null, log |-> "nodata"]
          ELSE IF "c" \notin DOMAIN candles
               THEN FetchCatch("Cannot read properties of undefined")
               ELSE [ret |-> StockRecord(symbol, quote, candles), log |-> "none"]

\* Requests that batch.map(getStockData) issues: a quote request and a candle
\* request for every symbol of the batch.
RequestsOf(batch) == 2 * Len(batch)

(* --------------------------------------------------------- createTreemap *)

\* createTreemap returns d3n.svgString(): a string, one cell per record.
createTreemap(data) ==
  [type |-> "string", cells |-> [j \in 1..Len(data) |-> data[j].symbol]]

\* Lines 177-211: canvas.toBuffer(...) on a string throws a TypeError; past
\* it, Buffer.from(svgString) names an undeclared variable.  Line 214
\* (bot.sendDocument) is therefore never reached.
RenderError(canvas) == IF canvas.type # "canvas" THEN MsgToBuffer ELSE MsgSvgString

(* ------------------------------------------------------------------- run *)

IdleRun ==
  [pc |-> "idle", response |-> NoReq, symbols |-> <<>>, i |-> 0, stockData |-> <<>>,
   quoteRes |-> NoReq, candlesRes |-> NoReq, restRes |-> NoReq, headRet |-> Awaiting,
   error |-> "", outbox |-> <<>>, batches |-> <<>>, pauses |-> 0,
   logNoData |-> {}, logError |-> {}, sent |-> <<>>, wake |-> 0,
   returned |-> <<>>, constituentCalls |-> 0, stats |-> Undefined]

\* run() up to its first await: the constituents request is on its way.
StartRun ==
  [IdleRun EXCEPT !.pc = "getSymbols", !.response = Pending, !.constituentCalls = @ + 1]

Min(a, b) == IF a < b THEN a ELSE b

\* symbols.slice(from, to)
Slice(symbols, from, to) == SubSeq(symbols, from + 1, Min(to, Len(symbols)))

Batch(f) == Slice(f.symbols, f.i, f.i + batchSize)

\* Mutant: the text sent does not carry the message of the error.
ErrorText_generic(message) == <<"Error in update: ", "unknown error">>

\* `Error in update: ${error.message}`
ErrorText(message) == <<"Error in update: ", message>>

\* Mutant: the error is thrown after the document has been delivered.
Throw_afterDoc(f, message) ==
  [f EXCEPT !.pc = "report", !.error = message,
            !.outbox = @ \o <<[method |-> "sendDocument", chat |-> env["CHAT_ID"],
                                text |-> <<>>, st |-> "ok"],
                               [method |-> "sendMessage", chat |-> env["CHAT_ID"],
                                text |-> ErrorText(message), st |-> "pending"]>>]

\* Lines 219-221: the catch of run sends the error text and awaits the call.
Throw(f, message) ==
  [f EXCEPT !.pc = "report", !.error = message,
            !.outbox = Append(@, [method |-> "sendMessage", chat |-> env["CHAT_ID"],
                                  text |-> ErrorText(message), st |-> "pending"])]

\* Mutant: a list of one record counts as empty.
NoData_le1(stockData) == Len(stockData) <= 1

\* stockData.length === 0
NoData(stockData) == Len(stockData) = 0

\* Lines 171-218, reached when the loop is over.
AfterLoop(f) ==
  IF NoData(f.stockData) THEN Throw(f, MsgNoData)
  ELSE Throw(f, RenderError(createTreemap(f.stockData)))

\* Lines 150-159: the batch is sliced and both requests of each of its
\* symbols are issued; sent logs the time and the symbols they are for.
IssueBatch(f) ==
  [f EXCEPT !.pc = "batch", !.batches = Append(@, Len(Batch(f))),
            !.sent = Append(@, [at |-> now, batch |-> Batch(f)]),
            !.quoteRes = Pending, !.candlesRes = Pending, !.headRet = Awaiting,
            !.returned = <<>>,
            !.restRes = IF Len(Batch(f)) > 1 THEN Pending ELSE NoReq]

\* for (let i = 0; i < symbols.length; i += batchSize): the loop test.
Loop(f) == IF f.i < Len(f.symbols) THEN IssueBatch(f) ELSE AfterLoop(f)

\* What getStockData returned for a symbol of the rest of the batch.
RestData(f, symbol) ==
  getStockData(symbol, RestQuote(f.restRes.st), RestCandle(f.restRes.st))

\* Mutant: the entries come in the order in which the calls returned.
BatchData_completion(f) ==
  [j \in 1..Len(Batch(f)) |->
     IF f.returned = <<"rest", "head">>
     THEN IF j = Len(Batch(f)) THEN f.headRet ELSE RestData(f, Batch(f)[j + 1]).ret
     ELSE IF j = 1 THEN f.headRet ELSE RestData(f, Batch(f)[j]).ret]

\* batchData: one entry per symbol of the batch, in the batch's order
\* (Promise.all keeps the order of the calls, not the order of completion).
BatchData(f) ==
  [j \in 1..Len(Batch(f)) |->
     IF j = 1 THEN f.headRet ELSE RestData(f, Batch(f)[j]).ret]

NotNull(d) == d # Null

\* Mutant: <= instead of <, a pause after the last full batch.
MoreBatches_le(i, n) == i + batchSize <= n

\* i + batchSize < symbols.length
MoreBatches(i, n) == i + batchSize < n

\* Mutant: no pause, the next batch is issued as soon as this one settles.
CompleteBatch_nopause(f) ==
  Loop([f EXCEPT !.stockData = @ \o SelectSeq(BatchData(f), NotNull),
                 !.i = @ + batchSize])

\* Lines 160-169: the batch has settled; its records are pushed, and the run
\* pauses or leaves the loop.
CompleteBatch(f) ==
  LET f1 == [f EXCEPT !.stockData = @ \o SelectSeq(BatchData(f), NotNull)] IN
  IF MoreBatches(f.i, Len(f.symbols))
  THEN [f1 EXCEPT !.pc = "pause", !.pauses = @ + 1, !.wake = now + pauseSeconds]
  ELSE Loop([f1 EXCEPT !.i = @ + batchSize])

\* Mutant: the batch counts as settled once its first getStockData returned.
AwaitBatch_first(f) ==
  IF f.pc # "batch" THEN f
  ELSE IF f.headRet # Awaiting THEN CompleteBatch(f)
  ELSE f

\* await Promise.all(batch.map(getStockData)) after a response has arrived.
AwaitBatch(f) ==
  IF f.pc # "batch" THEN f
  ELSE IF f.headRet.t = "thrown" THEN Throw(f, f.headRet.message)
  ELSE IF f.restRes.st \notin {"none", "pending"}
          /\ \E j \in 2..Len(Batch(f)) : BatchData(f)[j].t = "thrown"
       THEN Throw(f, NetworkError)
  ELSE IF f.headRet # Awaiting /\ f.restRes.st # "pending" THEN CompleteBatch(f)
  ELSE f

\* Mutant: a getStockData that failed is called again for its symbol.
ResumeHead_retry(f) ==
  IF f.pc # "batch" \/ f.headRet # Awaiting THEN f
  ELSE LET d == getStockData(Batch(f)[1], f.quoteRes, f.candlesRes) IN
       IF d.log = "error"
       THEN [f EXCEPT !.quoteRes = Pending, !.candlesRes = Pending,
                      !.sent = Append(@, [at |-> now, batch |-> <<Batch(f)[1]>>])]
       ELSE [f EXCEPT !.headRet = d.ret,
                      !.returned = IF d.ret # Awaiting THEN Append(@, "head") ELSE @,
                      !.logNoData = IF d.log = "nodata" THEN @ \cup {Batch(f)[1]} ELSE @]

\* The head's getStockData resumes, if it was waiting and its calls settled.
ResumeHead(f) ==
  IF f.pc # "batch" \/ f.headRet # Awaiting THEN f
  ELSE LET d == getStockData(Batch(f)[1], f.quoteRes, f.candlesRes) IN
       [f EXCEPT !.headRet = d.ret,
                 !.returned = IF d.ret # Awaiting THEN Append(@, "head") ELSE @,
                 !.logNoData = IF d.log = "nodata" THEN @ \cup {Batch(f)[1]} ELSE @,
                 !.logError = IF d.log = "error" THEN @ \cup {Batch(f)[1]} ELSE @]

\* Mutant: the records of the rest enter the list as soon as their calls
\* return, before the batch has settled.
ResumeRest_push(f) ==
  IF f.pc # "batch" THEN f
  ELSE LET rest == {Batch(f)[j] : j \in 2..Len(Batch(f))} IN
       [f EXCEPT !.returned = Append(@, "rest"),
                 !.stockData = @ \o SelectSeq(Tail(BatchData(f)), NotNull),
                 !.logNoData = @ \cup {s \in rest : RestData(f, s).log = "nodata"},
                 !.logError = @ \cup {s \in rest : RestData(f, s).log = "error"}]

\* The rest's getStockData calls resume.
ResumeRest(f) ==
  IF f.pc # "batch" THEN f
  ELSE LET rest == {Batch(f)[j] : j \in 2..Len(Batch(f))} IN
       [f EXCEPT !.returned = Append(@, "rest"),
                 !.logNoData = @ \cup {s \in rest : RestData(f, s).log = "nodata"},
                 !.logError = @ \cup {s \in rest : RestData(f, s).log = "error"}]

(* ---------------------------------------------------------------- actions *)

Init ==
  /\ env \in [EnvKeys -> EnvValues]
  /\ latency \in {"fast", "slow"}
  /\ proc = "init"
  /\ timer = FALSE
  /\ run = [r \in RunIds |-> IdleRun]
  /\ timed = FALSE
  /\ now = 0

InFlight(r) == run[r].pc \notin {"idle", "done"}

\* Lines 7-13 and 225-229: the module body.
Startup ==
  /\ proc = "init"
  /\ IF ConfigMissing(env)
     THEN /\ proc' = "crashed"
          /\ UNCHANGED <<timer, run>>
     ELSE /\ proc' = "running"
          /\ run' = [run EXCEPT ![1] = StartRun]
          /\ timer' = TRUE
  /\ UNCHANGED <<env, latency, timed, now>>

\* Mutant: the tick is skipped while a run is in flight.
Tick_guarded ==
  /\ proc = "running"
  /\ timer
  /\ \A r \in RunIds : ~InFlight(r)
  /\ \E r \in RunIds :
       /\ \A q \in RunIds : q < r => InFlight(q)
       /\ run' = [run EXCEPT ![r] = StartRun]
  /\ UNCHANGED <<env, latency, proc, timer, timed, now>>

\* The interval timer fires and calls run().  With fast latency the run
\* before it has ended; with slow latency it may still be in flight.
Tick ==
  /\ proc = "running"
  /\ timer
  /\ latency = "fast" => \A r \in RunIds : ~InFlight(r)
  /\ \E r \in RunIds :
       /\ ~InFlight(r)
       /\ \A q \in RunIds : q < r => InFlight(q)
       /\ run' = [run EXCEPT ![r] = StartRun]
  /\ UNCHANGED <<env, latency, proc, timer, timed, now>>

Lengths ==
  IF timed THEN TimedLengths ELSE IF latency = "slow" THEN SlowLengths ELSE FastLengths

Candles == IF latency = "slow" THEN SlowCandleResponses ELSE CandleResponses

\* The constituents response arrives: lines 143-173.
ConstituentsSettle ==
  /\ proc = "running"
  /\ \E r \in RunIds, response \in ConstituentResponses(Lengths) :
       /\ run[r].pc = "getSymbols"
       /\ LET f == [run[r] EXCEPT !.response = response]
              symbols == getSP500Symbols(response)
          IN run' = [run EXCEPT ![r] =
                       IF symbols.t = "thrown" THEN Throw(f, symbols.message)
                       ELSE Loop([f EXCEPT !.symbols = symbols.value, !.i = 0])]
  /\ UNCHANGED <<env, latency, proc, timer, timed, now>>

\* The quote response of the head symbol arrives.
QuoteSettle ==
  /\ proc = "running"
  /\ \E r \in RunIds, response \in QuoteResponses :
       /\ run[r].quoteRes = Pending
       /\ run' = [run EXCEPT ![r] =
                    AwaitBatch(ResumeHead([run[r] EXCEPT !.quoteRes = response]))]
  /\ UNCHANGED <<env, latency, proc, timer, timed, now>>

\* The candle response of the head symbol arrives.
CandleSettle ==
  /\ proc = "running"
  /\ \E r \in RunIds, response \in Candles :
       /\ run[r].candlesRes = Pending
       /\ run' = [run EXCEPT ![r] =
                    AwaitBatch(ResumeHead([run[r] EXCEPT !.candlesRes = response]))]
  /\ UNCHANGED <<env, latency, proc, timer, timed, now>>

\* The responses of the other symbols of the batch arrive.
RestSettle ==
  /\ proc = "running"
  /\ \E r \in RunIds, o \in RestOutcomes :
       /\ run[r].restRes = Pending
       /\ run' = [run EXCEPT ![r] =
                    AwaitBatch(ResumeRest([run[r] EXCEPT !.restRes = [st |-> o]]))]
  /\ UNCHANGED <<env, latency, proc, timer, timed, now>>

\* The pause timer of line 167 fires: the loop goes on with the next batch.
PauseElapsed ==
  /\ proc = "running"
  /\ \E r \in RunIds :
       /\ run[r].pc = "pause"
       /\ timed => now >= run[r].wake
       /\ run' = [run EXCEPT ![r] = Loop([run[r] EXCEPT !.i = @ + batchSize])]
  /\ UNCHANGED <<env, latency, proc, timer, timed, now>>

\* What Node does with the rejected promise of run(), which has no handler:
\* warn and go on, or end the process (the default since Node 15).
UnhandledRejection == {"warn", "exit"}

\* bot.sendMessage of line 221 settles, and run() ends.
ReportSettle ==
  /\ proc = "running"
  /\ \E r \in RunIds, st \in {"ok", "failed"} :
       /\ run[r].pc = "report"
       /\ run' = [run EXCEPT ![r].pc = "done",
                             ![r].outbox[Len(run[r].outbox)].st = st]
       /\ IF st = "failed"
          THEN \E u \in UnhandledRejection :
                 proc' = IF u = "exit" THEN "exited" ELSE proc
          ELSE proc' = proc
  /\ UNCHANGED <<env, latency, timer, timed, now>>

Next ==
  \/ Startup
  \/ Tick
  \/ ConstituentsSettle
  \/ QuoteSettle
  \/ CandleSettle
  \/ RestSettle
  \/ PauseElapsed
  \/ ReportSettle

Spec == Init /\ [][Next]_vars

(* ------------------------------------------------------ timed behaviours *)

\* The first MaxTime seconds of a configured process.  The interval timer
\* (10 minutes) does not fire within them.
InitTimed ==
  /\ env = [k \in EnvKeys |-> "value"]
  /\ latency = "fast"
  /\ proc = "init"
  /\ timer = FALSE
  /\ run = [r \in RunIds |-> IdleRun]
  /\ timed = TRUE
  /\ now = 0

\* A second passes.
Second ==
  /\ timed
  /\ now < MaxTime
  /\ now' = now + 1
  /\ UNCHANGED <<env, latency, proc, timer, run, timed>>

NextTimed ==
  \/ Startup
  \/ ConstituentsSettle
  \/ QuoteSettle
  \/ CandleSettle
  \/ RestSettle
  \/ PauseElapsed
  \/ ReportSettle
  \/ Second

SpecTimed == InitTimed /\ [][NextTimed]_vars

(* ------------------------------------------------------ summary statistics *)

\* stockData.reduce((best, stock) => stock.dailyReturn > best.dailyReturn ?
\* stock : best) from the accumulator best over the records left.
RECURSIVE ReduceBest(_, _)
ReduceBest(best, stockData) ==
  IF stockData = <<>> THEN best
  ELSE ReduceBest(IF JsGt(Head(stockData).dailyReturn, best.dailyReturn)
                  THEN Head(stockData) ELSE best,
                  Tail(stockData))

\* stockData.reduce((worst, stock) => stock.dailyReturn < worst.dailyReturn ?
\* stock : worst)
RECURSIVE ReduceWorst(_, _)
ReduceWorst(worst, stockData) ==
  IF stockData = <<>> THEN worst
  ELSE ReduceWorst(IF JsLt(Head(stockData).dailyReturn, worst.dailyReturn)
                   THEN Head(stockData) ELSE worst,
                   Tail(stockData))

\* Lines 180-192 on a list that is not empty: reduce without an initial value
\* starts from the first record.  averageReturn is a fraction and is left out.
Stats(stockData) ==
  [gainers |-> Cardinality({j \in 1..Len(stockData) :
                              JsGt(stockData[j].dailyReturn, Num(0))}),
   losers |-> Cardinality({j \in 1..Len(stockData) :
                             JsLt(stockData[j].dailyReturn, Num(0))}),
   bestPerformer |-> ReduceBest(Head(stockData), Tail(stockData)),
   worstPerformer |-> ReduceWorst(Head(stockData), Tail(stockData))]

\* The candle responses from which getStockData makes a record.
RecordCandles ==
  {c \in CandleResponses :
     c.st = "fulfilled" /\ c.data.s = "ok" /\ "c" \in DOMAIN c.data}

\* The frame of a run at line 180, for every list of 1..MaxRecords records
\* that getStockData can have returned.
InitStats ==
  /\ env = [k \in EnvKeys |-> "value"]
  /\ latency = "fast"
  /\ proc = "running"
  /\ timer = TRUE
  /\ timed = FALSE
  /\ now = 0
  /\ \E n \in 1..MaxRecords :
       \E candles \in [1..n -> RecordCandles] :
         run = [r \in RunIds |->
                  IF r = 1
                  THEN [IdleRun EXCEPT
                          !.pc = "stats",
                          !.symbols = [j \in 1..n |-> j],
                          !.stockData =
                            [j \in 1..n |->
                               StockRecord(j, [c |-> 5, dp |-> 3], candles[j].data)]]
                  ELSE IdleRun]

\* Lines 180-192: the statistics of the list.
ComputeStats ==
  /\ \E r \in RunIds :
       /\ run[r].pc = "stats"
       /\ run' = [run EXCEPT ![r].stats = Stats(run[r].stockData),
                             ![r].pc = "message"]
  /\ UNCHANGED <<env, latency, proc, timer, timed, now>>

NextStats == ComputeStats

SpecStats == InitStats /\ [][NextStats]_vars

(* ----------------------------------------------------------------- claims *)

Ceil(n, d) == (n + d - 1) \div d

Ended(r) == run[r].pc = "done"
PastLoop(r) == run[r].pc \in {"report", "done"}
\* getSP500Symbols returned a list to run.
GotSymbols(r) ==
  run[r].response.st = "fulfilled" /\ "constituents" \in DOMAIN run[r].response.data
HasRecord(r, s) ==
  \E j \in 1..Len(run[r].stockData) : run[r].stockData[j].symbol = s
\* The head symbol of the batch issued last, and the other symbols of it.
LastHead(r) == run[r].symbols[30 * (Len(run[r].batches) - 1) + 1]
LastRest(r) ==
  {run[r].symbols[j] : j \in (30 * (Len(run[r].batches) - 1) + 2)..
                              Min(30 * Len(run[r].batches), Len(run[r].symbols))}
HeadReturned(r) == run[r].batches # <<>> /\ run[r].headRet # Awaiting

\* C1: a run that ends with at least one record and whose messaging calls all
\* succeeded has sent exactly one message, the document with its caption, to
\* the fixed destination, and has raised no error.
C1_DocumentDelivered ==
  \A r \in RunIds :
    (/\ Ended(r)
     /\ Len(run[r].stockData) >= 1
     /\ \A j \in 1..Len(run[r].outbox) : run[r].outbox[j].st = "ok")
    => /\ run[r].error = ""
       /\ Len(run[r].outbox) = 1
       /\ run[r].outbox[1].method = "sendDocument"
       /\ run[r].outbox[1].chat = env["CHAT_ID"]

\* C2: a run that has thrown has made exactly one messaging call, a plain-text
\* sendMessage to the fixed destination whose text contains the error's
\* message; a run makes no such call without having thrown, and the run has
\* ended exactly when that call has settled.
C2_ErrorReported ==
  \A r \in RunIds :
    /\ run[r].error = "" => run[r].outbox = <<>> /\ ~PastLoop(r)
    /\ run[r].error # "" =>
         /\ PastLoop(r)
         /\ Len(run[r].outbox) = 1
         /\ run[r].outbox[1].method = "sendMessage"
         /\ run[r].outbox[1].chat = env["CHAT_ID"]
         /\ \E j \in 1..Len(run[r].outbox[1].text) :
              run[r].outbox[1].text[j] = run[r].error
         /\ Ended(r) <=> run[r].outbox[1].st # "pending"

C2_Witness ==
  \E r \in RunIds :
    /\ Ended(r)
    /\ run[r].error = MsgNoData
    /\ run[r].outbox[1].st = "ok"

\* C3: a run whose constituent list came back empty fails with the error of
\* the Constituent Resolver and has issued no quote or candle request.
C3_EmptyListDataUnavailable ==
  \A r \in RunIds :
    (GotSymbols(r) /\ run[r].response.data.constituents = <<>>)
    => /\ run[r].error = MsgConstituents
       /\ run[r].batches = <<>>

\* C4: a failed per-symbol operation (a rejected quote or candle request, a
\* response that cannot be read) yields null for that symbol and is logged by
\* getStockData; no record of the symbol enters the list, and if the run has
\* taken the error path at all, it did so after every batch had been issued
\* and with an error other than the one of the fetch.
C4_FetchFailureLocal ==
  \A r \in RunIds :
    /\ (HeadReturned(r)
        /\ (\/ run[r].quoteRes.st = "rejected"
            \/ run[r].candlesRes.st = "rejected"
            \/ /\ run[r].quoteRes.st = "fulfilled"
               /\ run[r].candlesRes.st = "fulfilled"
               /\ run[r].quoteRes.data.c # 0
               /\ run[r].candlesRes.data.s = "ok"
               /\ "c" \notin DOMAIN run[r].candlesRes.data))
       => run[r].headRet = Null /\ LastHead(r) \in run[r].logError
    /\ run[r].restRes.st = "rejected" => LastRest(r) \subseteq run[r].logError
    /\ \A s \in run[r].logError : ~HasRecord(r, s)
    /\ (run[r].logError # {} /\ run[r].error # "") =>
         /\ run[r].error \in {MsgNoData, MsgToBuffer, MsgSvgString}
         /\ Len(run[r].batches) = Ceil(Len(run[r].symbols), 30)
         /\ run[r].i >= Len(run[r].symbols)

C4_Witness ==
  \E r \in RunIds :
    /\ Ended(r)
    /\ 1 \in run[r].logError
    /\ Len(run[r].batches) = 3
    /\ HasRecord(r, 31)
    /\ HasRecord(r, 61)

\* C5: a symbol whose quote price is 0 or whose candle status is not "ok"
\* has no record in the list, and the other symbols of its batch, when their
\* requests were fulfilled, have theirs.
C5_NoDataDropped ==
  \A r \in RunIds :
    /\ (HeadReturned(r)
        /\ (\/ run[r].quoteRes.st = "fulfilled" /\ run[r].quoteRes.data.c = 0
            \/ run[r].candlesRes.st = "fulfilled" /\ run[r].candlesRes.data.s # "ok"))
       => /\ run[r].headRet = Null
          /\ ~HasRecord(r, LastHead(r))
          /\ (run[r].restRes.st = "fulfilled" /\ run[r].pc # "batch")
             => \A s \in LastRest(r) : HasRecord(r, s)
    /\ \A s \in run[r].logNoData : ~HasRecord(r, s)

C5_Witness ==
  \E r \in RunIds :
    /\ Ended(r)
    /\ run[r].quoteRes.st = "fulfilled" /\ run[r].quoteRes.data.c = 0
    /\ run[r].candlesRes.st = "fulfilled" /\ run[r].candlesRes.data.s = "ok"
    /\ Len(run[r].symbols) = 3
    /\ ~HasRecord(r, 1) /\ HasRecord(r, 2) /\ HasRecord(r, 3)

\* C6: a symbol whose candle window has status "ok" but fewer than two
\* closes, or a prior close of 0, is dropped, and every record of the list
\* has a dailyReturn that is a finite number.
C6_RecordsNeedTwoCloses ==
  \A r \in RunIds :
    /\ (HeadReturned(r)
        /\ run[r].candlesRes.st = "fulfilled"
        /\ run[r].candlesRes.data.s = "ok"
        /\ "c" \in DOMAIN run[r].candlesRes.data
        /\ (\/ Len(run[r].candlesRes.data.c) < 2
            \/ run[r].candlesRes.data.c[Len(run[r].candlesRes.data.c) - 1] = 0))
       => run[r].headRet = Null
    /\ \A j \in 1..Len(run[r].stockData) : run[r].stockData[j].dailyReturn.t = "number"

\* C7: for a list of n > 0 symbols the batches issued are the first ones of
\* ceil(n/30) batches, each of 30 symbols but the last, which has the
\* remainder; a pause follows every batch but the last, so a run that has
\* left the loop issued ceil(n/30) batches and paused ceil(n/30) - 1 times.
C7_Batches ==
  \A r \in RunIds :
    LET n == Len(run[r].symbols)
        nb == Ceil(n, 30)
        b == run[r].batches
    IN n > 0 =>
         /\ Len(b) <= nb
         /\ \A k \in 1..Len(b) : b[k] = IF k < nb THEN 30 ELSE n - 30 * (nb - 1)
         /\ run[r].pc = "batch" => run[r].pauses = Len(b) - 1
         /\ run[r].pc = "pause" => run[r].pauses = Len(b) /\ Len(b) < nb
         /\ PastLoop(r) => Len(b) = nb /\ run[r].pauses = nb - 1

C7_Witness ==
  \E r \in RunIds :
    /\ Ended(r)
    /\ Len(run[r].symbols) = 65
    /\ run[r].batches = <<30, 30, 5>>
    /\ run[r].pauses = 2

\* C8: a run raises NoDataAvailable exactly when the constituent fetch
\* succeeded and the list is empty once every batch has been processed; it is
\* not raised while batches remain, nor with a record in the list.
C8_NoDataIff ==
  \A r \in RunIds :
    /\ PastLoop(r) =>
         (run[r].error = MsgNoData <=> (GotSymbols(r) /\ run[r].stockData = <<>>))
    /\ run[r].error = MsgNoData =>
         /\ PastLoop(r)
         /\ Len(run[r].batches) = Ceil(Len(run[r].symbols), 30)

C8_Witness ==
  \E r \in RunIds :
    /\ Ended(r)
    /\ run[r].error = MsgNoData
    /\ Len(run[r].batches) = 2

\* C9: after a run has ended with an error, whether or not its error report
\* was delivered, the process is running and its interval timer is armed.
C9_ProcessKeepsRunning ==
  (\E r \in RunIds : Ended(r) /\ run[r].error # "")
  => proc = "running" /\ timer

\* C10: with one of the three configuration values absent the process never
\* runs: no run is started (so no network call is made and no message sent)
\* and no timer is registered.
C10_ConfigRequired ==
  (\E k \in EnvKeys : env[k] = NotSet)
  => /\ proc \in {"init", "crashed"}
     /\ ~timer
     /\ \A r \in RunIds : run[r] = IdleRun

C10_Witness ==
  /\ proc = "crashed"
  /\ env["CHAT_ID"] = NotSet
  /\ env["FINNHUB_API_KEY"] = "value"
  /\ env["TELEGRAM_TOKEN"] = "value"

\* C11: within a run the requests of a batch are issued either right after
\* the constituent list arrived (the first batch) or by the step in which the
\* pause after the batch before it elapses, and that batch had then
\* completed: every getStockData of it had returned.
C11_Sequential ==
  [][\A r \in RunIds :
       (run'[r].pc = "batch" /\ Len(run'[r].sent) = Len(run[r].sent) + 1)
       => \/ run[r].pc = "getSymbols" /\ run[r].sent = <<>>
          \/ /\ run[r].pc = "pause"
             /\ run[r].sent # <<>>
             /\ run[r].headRet # Awaiting
             /\ run[r].restRes.st # "pending"]_vars

C11_Witness ==
  \E r \in RunIds :
    /\ run[r].pc = "batch"
    /\ Len(run[r].sent) = 3
    /\ run[r].pauses = 2

\* A batch of run r has been issued and the run has gone past it.
BatchDone(r) == run[r].sent # <<>> /\ run[r].pc \in {"pause", "report"}

\* C12 as stated: when the run goes on after a batch, every getStockData of
\* the batch has returned and no quote or candle request of it is outstanding.
C12_NothingOutstanding ==
  \A r \in RunIds :
    BatchDone(r) =>
      /\ run[r].headRet # Awaiting
      /\ run[r].restRes # Pending
      /\ run[r].quoteRes # Pending
      /\ run[r].candlesRes # Pending

\* C12 as amended: when the run goes on after a batch, every getStockData of
\* the batch has returned; a request of it is still outstanding only if the
\* other request of the same symbol was rejected.
C12_EveryFetchReturned ==
  \A r \in RunIds :
    BatchDone(r) =>
      /\ run[r].headRet # Awaiting
      /\ run[r].restRes # Pending
      /\ run[r].quoteRes = Pending => run[r].candlesRes = Rejected
      /\ run[r].candlesRes = Pending => run[r].quoteRes = Rejected

C12_Witness ==
  \E r \in RunIds :
    /\ run[r].pc = "pause"
    /\ run[r].quoteRes = Rejected
    /\ run[r].candlesRes = Pending
    /\ run[r].restRes.st = "fulfilled"

\* Quote and candle requests that a log of issued batches holds for the
\* seconds from..to.
RECURSIVE RequestsIn(_, _, _)
RequestsIn(sent, from, to) ==
  IF sent = <<>> THEN 0
  ELSE (IF Head(sent).at >= from /\ Head(sent).at <= to
        THEN RequestsOf(Head(sent).batch) ELSE 0)
       + RequestsIn(Tail(sent), from, to)

\* C13: in no window of 60 seconds does a run issue more than 60 quote and
\* candle requests.
C13_RateLimit ==
  \A r \in RunIds : \A w \in 0..MaxTime :
    RequestsIn(run[r].sent, w, w + 59) <= 60

\* The symbols of the batches that have settled so far, in list order.
Settled(r) ==
  SubSeq(run[r].symbols, 1,
         Min(Len(run[r].symbols),
             batchSize * (Len(run[r].batches) - (IF run[r].pc = "batch" THEN 1 ELSE 0))))

\* getStockData returned null for the symbol.
ReturnedNull(r, s) == s \in run[r].logNoData \cup run[r].logError

\* C14: the result list holds, in the order of the constituent list, one
\* record for every symbol of the settled batches whose fetch returned a
\* record, whichever of the batch's fetches completed first.
C14_Concatenation ==
  \A r \in RunIds :
    GotSymbols(r) =>
      LET Kept(s) == ~ReturnedNull(r, s) IN
      [j \in 1..Len(run[r].stockData) |-> run[r].stockData[j].symbol]
        = SelectSeq(Settled(r), Kept)

\* The rest of the second batch returned before its head, and the head's
\* record still precedes theirs.
C14_Witness ==
  \E r \in RunIds :
    /\ run[r].pc = "pause"
    /\ Len(run[r].batches) = 2
    /\ run[r].returned = <<"rest", "head">>
    /\ Len(run[r].stockData) = 2 * batchSize
    /\ run[r].stockData[batchSize + 1].symbol = batchSize + 1

\* The symbols of a log of issued batches, in the order of issue.
RECURSIVE Issued(_)
Issued(sent) == IF sent = <<>> THEN <<>> ELSE Head(sent).batch \o Issued(Tail(sent))

\* A symbol is its position in the constituent list, so a sequence of symbols
\* that increases strictly names no symbol twice.
Increasing(seq) == \A j \in 1..(Len(seq) - 1) : seq[j] < seq[j + 1]

\* C15: a run that has started has requested the constituents once, and has
\* issued the quote and candle requests of a symbol in at most one batch and
\* there once, whatever failed: in all at most two requests per listed symbol.
C15_NoRetry ==
  \A r \in RunIds :
    /\ run[r].pc # "idle" => run[r].constituentCalls = 1
    /\ Increasing(Issued(run[r].sent))
    /\ RequestsIn(run[r].sent, 0, MaxTime) <= 2 * Len(run[r].symbols)

\* Every fetch of a list of two full batches and more failed, and each symbol
\* was requested once.
C15_Witness ==
  \E r \in RunIds :
    /\ Ended(r)
    /\ Len(run[r].sent) = 3
    /\ run[r].logError = 1..Len(run[r].symbols)
    /\ RequestsIn(run[r].sent, 0, MaxTime) = 2 * Len(run[r].symbols)
    /\ run[r].constituentCalls = 1

\* C16: a configured process has started its first run and armed the timer
\* as soon as it runs, and when runs outlast the interval the tick starts a
\* run whatever the runs before it are doing (as long as the model has a frame
\* left for it).
C16_TickUnguarded ==
  /\ proc \in {"running", "exited"} => timer /\ run[1].pc # "idle"
  /\ (proc = "running" /\ latency = "slow" /\ \E r \in RunIds : ~InFlight(r))
     => ENABLED Tick

\* A tick has started a run while the run before it waits for responses.
C16_Witness ==
  /\ run[1].pc = "batch"
  /\ run[1].quoteRes = Pending
  /\ run[2].pc = "getSymbols"

\* The run waits for a network call or for its pause timer.
HasPending(r) ==
  \/ run[r].pc = "getSymbols" /\ run[r].response = Pending
  \/ /\ run[r].pc = "batch"
     /\ Pending \in {run[r].quoteRes, run[r].candlesRes, run[r].restRes}
  \/ run[r].pc = "pause"
  \/ run[r].pc = "report" /\ run[r].outbox[Len(run[r].outbox)].st = "pending"

\* C17: a run that has started and not ended is in a process that runs, and
\* waits for a call that will settle or a timer that will fire.
C17_NeverStuck ==
  \A r \in RunIds : InFlight(r) => proc = "running" /\ HasPending(r)

\* a >= b on JS numbers.
JsGe(a, b) == JsGt(a, b) \/ (a = b /\ a.t \in {"number", "Infinity", "-Infinity"})

\* C18: bestPerformer is the first record of the list with the greatest
\* dailyReturn and worstPerformer the first with the least: the dailyReturn
\* of every record lies between theirs.
C18_BestWorst ==
  \A r \in RunIds :
    run[r].pc = "message" =>
      LET stockData == run[r].stockData
          best == run[r].stats.bestPerformer
          worst == run[r].stats.worstPerformer
      IN /\ \E j \in 1..Len(stockData) :
              /\ stockData[j] = best
              /\ \A k \in 1..(j - 1) : stockData[k].dailyReturn # best.dailyReturn
         /\ \E j \in 1..Len(stockData) :
              /\ stockData[j] = worst
              /\ \A k \in 1..(j - 1) : stockData[k].dailyReturn # worst.dailyReturn
         /\ \A j \in 1..Len(stockData) :
              /\ JsGe(best.dailyReturn, stockData[j].dailyReturn)
              /\ JsGe(stockData[j].dailyReturn, worst.dailyReturn)

\* The messaging calls of a run that were made with the method.
Calls(r, method) ==
  {j \in 1..Len(run[r].outbox) : run[r].outbox[j].method = method}

\* C19: a run has at most one messaging call that succeeded, never both a
\* document and an error text, and an error text only without a delivered
\* document.
C19_AtMostOneMessage ==
  \A r \in RunIds :
    /\ Cardinality({j \in 1..Len(run[r].outbox) : run[r].outbox[j].st = "ok"}) <= 1
    /\ Calls(r, "sendDocument") = {} \/ Calls(r, "sendMessage") = {}
    /\ Calls(r, "sendMessage") # {} =>
         \A j \in Calls(r, "sendDocument") : run[r].outbox[j].st # "ok"

\* A run with records has ended with the error text as its only message.
C19_Witness ==
  \E r \in RunIds :
    /\ Ended(r)
    /\ Len(run[r].stockData) >= 1
    /\ Len(run[r].outbox) = 1
    /\ run[r].outbox[1].method = "sendMessage"
    /\ run[r].outbox[1].st = "ok"

\* a is an initial part of b.
IsPrefix(a, b) == Len(a) <= Len(b) /\ SubSeq(b, 1, Len(a)) = a

\* The step leaves the run with a batch that has just settled.
SettlesBatch(r) ==
  /\ run[r].pc = "batch"
  /\ run'[r].pc \in {"pause", "report"}
  /\ run'[r].headRet # Awaiting
  /\ run'[r].restRes # Pending

\* C20: the list of a run holds no symbol twice and no more records than the
\* symbols of its settled batches; a step changes it only by appending, in
\* the step in which a batch of that run settles (or by giving a run that
\* starts its own empty list), and then the lists of the other runs stay as
\* they are.
C20_PrivateAppendOnly ==
  /\ [](\A r \in RunIds :
          /\ Increasing([j \in 1..Len(run[r].stockData) |-> run[r].stockData[j].symbol])
          /\ Len(run[r].stockData) <= Len(Settled(r)))
  /\ [][\A r \in RunIds :
          run'[r].stockData # run[r].stockData =>
            /\ \/ run'[r] = StartRun
               \/ /\ SettlesBatch(r)
                  /\ IsPrefix(run[r].stockData, run'[r].stockData)
            /\ \A q \in RunIds \ {r} : run'[q].stockData = run[q].stockData]_vars

\* A run appends its batch's record while a second run is in flight with
\* an empty list of its own.
C20_Witness ==
  /\ run[1].pc = "report"
  /\ Len(run[1].stockData) = 1
  /\ run[2].pc = "batch"
  /\ run[2].stockData = <<>>

====
